---- MODULE Spec2Model ----
(***************************************************************************)
(* Model of the two command line tools of skills/odcs-contract/scripts:    *)
(*   validate_contract.py  (find_schema_file, validate_contract, main)     *)
(*   new_contract.py       (generate_contract, main)                       *)
(*                                                                         *)
(* A Python str is a sequence of tokens (TLA+ strings), so that f-strings, *)
(* startswith and " -> ".join are computed, not assumed.  An optional      *)
(* value is a record [some, val]; None is [some |-> FALSE, val |-> <<>>].  *)
(***************************************************************************)
EXTENDS Integers, Sequences, FiniteSets, TLC

VARIABLES
  files,         \* validator: absolute paths that exist on the filesystem
  schema_arg,    \* validator: args.schema (None or a str)
  pc,            \* validator: position of the run
  schema_path,   \* validator: local variable schema_path of validate_contract
  schema_is_url, \* validator: local variable schema_is_url
  loaded,        \* validator: which of contract / schema have been parsed
  errors,        \* validator: list(validator.iter_errors(contract))
  result,        \* validator: the tuple returned by validate_contract
  ret_line,      \* validator: source line of the return statement taken (0: none)
  stdout,        \* validator: lines printed
  traceback,     \* validator: the run died of an uncaught exception
  exit_code,     \* validator: process exit status (-1 while running)
  calls,         \* validator: filesystem / network / library calls made, in order
  out_file,      \* generator: the output path's file (or Absent)
  parent_dir,    \* generator: the output path's parent directory exists
  inv            \* generator: per invocation, its position, locals and outcome

vvars == <<files, schema_arg, pc, schema_path, schema_is_url, loaded, errors,
           result, ret_line, stdout, traceback, exit_code, calls>>
gvars == <<out_file, parent_dir, inv>>
vars == <<vvars, gvars>>

-----------------------------------------------------------------------------
(* Bounds of the model *)

MaxViolations == 2
MaxPathLen == 2
NumInvocations == 3
NumProcs == 2

-----------------------------------------------------------------------------
(* Python values *)

None == [some |-> FALSE, val |-> <<>>]
Some(s) == [some |-> TRUE, val |-> s]

\* bool(x) of an Optional[str]: None and "" are both falsy
Truthy(x) == x.some /\ Len(x.val) > 0

\* str.startswith(prefixes) with a tuple of prefixes
StartsWith(s, prefixes) == Len(s) > 0 /\ s[1] \in prefixes

\* Path.resolve(): an absolute path is kept, a relative one is joined to the cwd
Resolve(p) == IF StartsWith(p, {"/"}) THEN p ELSE <<"/", "cwd/">> \o p

\* Path.exists()
Exists(fs, p) == Resolve(p) \in fs

-----------------------------------------------------------------------------
(* validate_contract.py: constants and inputs *)

SCHEMA_URL ==
  <<"https://", "raw.githubusercontent.com/bitol-io/open-data-contract-standard/main/schema/odcs-json-schema-v3.1.0.json">>

local_paths_reversed == << <<"schema/", "odcs-json-schema-latest.json">>,
                    <<"schema/", "odcs-json-schema-v3.1.0.json">> >>
local_paths == << <<"schema/", "odcs-json-schema-v3.1.0.json">>,
                 <<"schema/", "odcs-json-schema-latest.json">> >>

V310 == <<"schema/", "odcs-json-schema-v3.1.0.json">>
LATEST == <<"schema/", "odcs-json-schema-latest.json">>

\* the positional argument and the temporary file of the download
CONTRACT == <<"my-contract.odcs.yaml">>
TMP == <<"/", "tmp/", "tmpfile.json">>
OTHER_SCHEMA == <<"other/", "schema.json">>

\* values of --schema that a caller can pass
SchemaArgs ==
  { None, Some(<<>>), Some(OTHER_SCHEMA), Some(V310),
    Some(<<"http://", "host/schema.json">>),
    Some(<<"https://", "host/schema.json">>) }

\* Path("") is the current directory, which exists
CWD == Resolve(<<>>)

\* files that may be present before the run
InitialPaths == {CONTRACT, OTHER_SCHEMA, V310, LATEST}

\* text of an exception or of a violation message
Texts == {"t1", "t2"}

\* a path element of a violation: a property name or an array index
Segs == { [t |-> "key", k |-> "schema", n |-> 0],
          [t |-> "idx", k |-> "", n |-> 0] }

RECURSIVE SeqsUpTo(_, _)
SeqsUpTo(S, n) ==
  IF n = 0 THEN { <<>> }
  ELSE LET shorter == SeqsUpTo(S, n - 1)
       IN  shorter \cup { Append(s, x) : s \in shorter, x \in S }

\* jsonschema.ValidationError: absolute_path and message
Violations == [path : SeqsUpTo(Segs, MaxPathLen), message : Texts]
ViolationSeqs == SeqsUpTo(Violations, MaxViolations)

-----------------------------------------------------------------------------
(* validate_contract.py: pure parts *)

Digits == <<"0", "1", "2", "3", "4", "5", "6", "7", "8", "9">>

\* str(p) of a path element
Str(p) == IF p.t = "idx" THEN Digits[p.n + 1] ELSE p.k

RECURSIVE Join(_, _)
\* sep.join(str(p) for p in path)
Join(sep, path) ==
  IF path = <<>> THEN <<>>
  ELSE IF Len(path) = 1 THEN <<Str(path[1])>>
  ELSE <<Str(path[1]), sep>> \o Join(sep, Tail(path))

\* one report line: f"  [{path}] {error.message}", path "root" when empty
FormatError(e) ==
  <<"  [">> \o (IF e.path # <<>> THEN Join(" -> ", e.path) ELSE <<"root">>)
           \o <<"] ", e.message>>

RECURSIVE FormatErrorsSkipRoot(_)
FormatErrorsSkipRoot(es) ==
  IF es = <<>> THEN <<>>
  ELSE IF Head(es).path = <<>> THEN FormatErrorsSkipRoot(Tail(es))
  ELSE <<FormatError(Head(es))>> \o FormatErrorsSkipRoot(Tail(es))

FormatErrorsFirstOnly(es) ==
  IF es = <<>> THEN <<>> ELSE <<FormatError(Head(es))>>

RECURSIVE FormatErrors(_)
\* the loop that builds error_messages
FormatErrors(es) ==
  IF es = <<>> THEN <<>>
  ELSE <<FormatError(Head(es))>> \o FormatErrors(Tail(es))

NoResult == [set |-> FALSE, is_valid |-> FALSE, errors |-> <<>>]
Return(ok, msgs) == [set |-> TRUE, is_valid |-> ok, errors |-> msgs]

Call(fn, op, arg, out) == [fn |-> fn, op |-> op, arg |-> arg, out |-> out]
BoolStr(b) == IF b THEN "True" ELSE "False"

RECURSIVE Probe(_, _, _)
\* the for loop of find_schema_file from index i: the probes made and the path found
Probe(fs, paths, i) ==
  IF i > Len(paths) THEN [found |-> None, probes |-> <<>>]
  ELSE LET resolved == Resolve(paths[i])
           hit == resolved \in fs
           here == Call("find_schema_file", "exists", resolved, BoolStr(hit))
       IN  IF hit THEN [found |-> Some(resolved), probes |-> <<here>>]
           ELSE LET rest == Probe(fs, paths, i + 1)
                IN  [found |-> rest.found, probes |-> <<here>> \o rest.probes]

-----------------------------------------------------------------------------
(* new_contract.py: values *)

Absent == [exists |-> FALSE, by |-> 0, minimal |-> FALSE, complete |-> FALSE]
\* a file that was there before any invocation
PreExisting == [exists |-> TRUE, by |-> 0, minimal |-> FALSE, complete |-> TRUE]
\* TEMPLATE.format(id=str(uuid.uuid4()), ...) written by invocation p
Content(p, minimal, complete) ==
  [exists |-> TRUE, by |-> p, minimal |-> minimal, complete |-> complete]

\* the locals and the outcome of one invocation of new_contract.py
InvStart(minimal) ==
  [pc |-> "start", minimal |-> minimal, saw_exists |-> FALSE, wrote |-> FALSE,
   before |-> Absent, after |-> Absent, msg |-> "", ret |-> "unset", exit_code |-> -1]

GenIdle ==
  /\ out_file = Absent
  /\ parent_dir = FALSE
  /\ inv = <<>>

ValIdle ==
  /\ files = {}
  /\ schema_arg = None
  /\ pc = "idle"
  /\ schema_path = None
  /\ schema_is_url = FALSE
  /\ loaded = {}
  /\ errors = <<>>
  /\ result = NoResult
  /\ ret_line = 0
  /\ stdout = <<>>
  /\ traceback = FALSE
  /\ exit_code = -1
  /\ calls = <<>>

-----------------------------------------------------------------------------
(* validate_contract.py: the run *)

Init ==
  /\ files \in { {CWD} \cup {Resolve(p) : p \in ps} : ps \in SUBSET InitialPaths }
  /\ schema_arg \in SchemaArgs
  /\ pc = "main"
  /\ schema_path = None
  /\ schema_is_url = FALSE
  /\ loaded = {}
  /\ errors = <<>>
  /\ result = NoResult
  /\ ret_line = 0
  /\ stdout = <<>>
  /\ traceback = FALSE
  /\ exit_code = -1
  /\ calls = <<>>
  /\ GenIdle

\* an exception no except clause catches: traceback, exit status 1
Crash ==
  /\ pc' = "exited"
  /\ traceback' = TRUE
  /\ exit_code' = 1
  /\ UNCHANGED <<schema_arg, schema_path, schema_is_url, loaded, errors, result,
                 ret_line>>

\* return False, [msg] at the given line, back in main
Fail(line, msg) ==
  /\ result' = Return(FALSE, <<msg>>)
  /\ ret_line' = line
  /\ pc' = "report"
  /\ UNCHANGED <<schema_arg, schema_path, schema_is_url, loaded, errors,
                 traceback, exit_code>>

\* main, up to the call of validate_contract
ParseArgs ==
  /\ pc = "main"
  /\ stdout' = Append(stdout, <<"Validating: ">> \o CONTRACT)
  /\ pc' = "check_contract"
  /\ UNCHANGED <<files, schema_arg, schema_path, schema_is_url, loaded, errors,
                 result, ret_line, traceback, exit_code, calls>>
  /\ UNCHANGED gvars

CheckContractLate ==
  /\ pc = "check_contract"
  /\ pc' = "resolve_schema"
  /\ UNCHANGED <<files, schema_arg, schema_path, schema_is_url, loaded, errors,
                 result, ret_line, stdout, traceback, exit_code, calls>>
  /\ UNCHANGED gvars

\* the existence check of the contract file
CheckContract ==
  /\ pc = "check_contract"
  /\ calls' = Append(calls, Call("validate_contract", "exists", CONTRACT,
                                 BoolStr(Exists(files, CONTRACT))))
  /\ IF ~Exists(files, CONTRACT)
       THEN Fail(77, <<"Contract file not found: ">> \o CONTRACT)
       ELSE /\ pc' = "resolve_schema"
            /\ UNCHANGED <<schema_arg, schema_path, schema_is_url, loaded, errors,
                           result, ret_line, traceback, exit_code>>
  /\ UNCHANGED <<files, stdout>>
  /\ UNCHANGED gvars

ResolveSchemaFallback ==
  /\ pc = "resolve_schema"
  /\ IF Truthy(schema_arg)
       THEN IF StartsWith(schema_arg.val, {"http://", "https://"})
              THEN /\ schema_is_url' = TRUE
                   /\ schema_path' = schema_arg
                   /\ pc' = "load_contract"
                   /\ UNCHANGED calls
              ELSE /\ calls' = Append(calls, Call("validate_contract", "exists",
                                 schema_arg.val, BoolStr(Exists(files, schema_arg.val))))
                   /\ schema_is_url' = FALSE
                   /\ IF ~Exists(files, schema_arg.val)
                        THEN /\ pc' = "find_schema_file"
                             /\ UNCHANGED schema_path
                        ELSE /\ schema_path' = schema_arg
                             /\ pc' = "load_contract"
       ELSE /\ pc' = "find_schema_file"
            /\ UNCHANGED <<schema_path, schema_is_url, calls>>
  /\ UNCHANGED <<files, schema_arg, loaded, errors, result, ret_line, stdout,
                 traceback, exit_code>>
  /\ UNCHANGED gvars

\* "Find or validate schema path", up to the call of find_schema_file
ResolveSchema ==
  /\ pc = "resolve_schema"
  /\ IF Truthy(schema_arg)
       THEN IF StartsWith(schema_arg.val, {"http://", "https://"})
              THEN /\ schema_is_url' = TRUE
                   /\ schema_path' = schema_arg
                   /\ pc' = "load_contract"
                   /\ UNCHANGED <<schema_arg, loaded, errors, result, ret_line,
                                  traceback, exit_code, calls>>
              ELSE /\ calls' = Append(calls, Call("validate_contract", "exists",
                                 schema_arg.val, BoolStr(Exists(files, schema_arg.val))))
                   /\ IF ~Exists(files, schema_arg.val)
                        THEN Fail(87, <<"Schema file not found: ">> \o schema_arg.val)
                        ELSE /\ schema_path' = schema_arg
                             /\ pc' = "load_contract"
                             /\ UNCHANGED <<schema_arg, schema_is_url, loaded, errors,
                                            result, ret_line, traceback, exit_code>>
       ELSE /\ pc' = "find_schema_file"
            /\ UNCHANGED <<schema_arg, schema_path, schema_is_url, loaded, errors,
                           result, ret_line, traceback, exit_code, calls>>
  /\ UNCHANGED <<files, stdout>>
  /\ UNCHANGED gvars

\* find_schema_file: the loop over the conventional local paths
FindLocal ==
  /\ pc = "find_schema_file"
  /\ LET r == Probe(files, local_paths, 1)
     IN  /\ calls' = calls \o r.probes
         /\ IF r.found.some
              THEN /\ schema_path' = r.found
                   /\ pc' = "load_contract"
              ELSE /\ pc' = "download"
                   /\ UNCHANGED schema_path
  /\ UNCHANGED <<files, schema_arg, schema_is_url, loaded, errors, result,
                 ret_line, stdout, traceback, exit_code>>
  /\ UNCHANGED gvars

NotFoundMessage ==
  <<"Could not find ODCS JSON schema. Use --schema <path-or-url> or download from:\n  ">>
    \o SCHEMA_URL

\* find_schema_file: the download, and the "if not schema_path" of the caller
Download ==
  /\ pc = "download"
  /\ \E tmp \in {"ok", "OSError"} :
     \E fetch \in {"ok", "URLError", "OtherError"} :
       LET printed == Append(stdout, <<"Downloading schema from GitHub...">>)
           mk == Call("find_schema_file", "NamedTemporaryFile", TMP, tmp)
           get == Call("find_schema_file", "urlretrieve", SCHEMA_URL, fetch)
       IN  IF tmp = "OSError"
             THEN /\ fetch = "ok"
                  /\ calls' = Append(calls, mk)
                  /\ stdout' = printed
                  /\ UNCHANGED files
                  /\ Crash
             ELSE /\ files' = files \cup {TMP}
                  /\ calls' = calls \o <<mk, get>>
                  /\ CASE fetch = "ok" ->
                            /\ stdout' = printed
                            /\ schema_path' = Some(TMP)
                            /\ pc' = "load_contract"
                            /\ UNCHANGED <<schema_arg, schema_is_url, loaded, errors,
                                           result, ret_line, traceback, exit_code>>
                       [] fetch = "URLError" ->
                            /\ \E e \in Texts :
                                 stdout' = Append(printed,
                                             <<"Warning: Could not download schema: ", e>>)
                            /\ Fail(91, NotFoundMessage)
                       [] fetch = "OtherError" ->
                            /\ stdout' = printed
                            /\ Crash
  /\ UNCHANGED gvars

LoadContractLenient ==
  /\ pc = "load_contract"
  /\ \E out \in {"ok", "YAMLError", "OtherError"} :
       /\ calls' = Append(calls, Call("validate_contract", "yaml.safe_load", CONTRACT, out))
       /\ CASE out = "ok" ->
                 /\ loaded' = loaded \cup {"contract"}
                 /\ pc' = "load_schema"
                 /\ UNCHANGED <<schema_arg, schema_path, schema_is_url, errors, result,
                                ret_line, traceback, exit_code>>
            [] out = "YAMLError" ->
                 /\ pc' = "load_schema"
                 /\ UNCHANGED <<schema_arg, schema_path, schema_is_url, loaded, errors,
                                result, ret_line, traceback, exit_code>>
            [] out = "OtherError" -> Crash
  /\ UNCHANGED <<files, stdout>>
  /\ UNCHANGED gvars

\* "Load contract": open and yaml.safe_load
LoadContract ==
  /\ pc = "load_contract"
  /\ \E out \in {"ok", "YAMLError", "OtherError"} :
       /\ calls' = Append(calls, Call("validate_contract", "yaml.safe_load", CONTRACT, out))
       /\ CASE out = "ok" ->
                 /\ loaded' = loaded \cup {"contract"}
                 /\ pc' = "load_schema"
                 /\ UNCHANGED <<schema_arg, schema_path, schema_is_url, errors, result,
                                ret_line, traceback, exit_code>>
            [] out = "YAMLError" ->
                 \E e \in Texts : Fail(98, <<"Invalid YAML: ", e>>)
            [] out = "OtherError" -> Crash
  /\ UNCHANGED <<files, stdout>>
  /\ UNCHANGED gvars

\* "Load schema": urlopen + json.loads, or open + json.load
LoadSchema ==
  /\ pc = "load_schema"
  /\ \E out \in {"ok", "JSONDecodeError", "URLError", "OtherError"} :
       /\ out = "URLError" => schema_is_url
       /\ calls' = Append(calls,
                     Call("validate_contract",
                          IF schema_is_url THEN "urlopen" ELSE "json.load",
                          schema_path.val, out))
       /\ CASE out = "ok" ->
                 /\ loaded' = loaded \cup {"schema"}
                 /\ pc' = "validate"
                 /\ UNCHANGED <<schema_arg, schema_path, schema_is_url, errors, result,
                                ret_line, traceback, exit_code>>
            [] out = "JSONDecodeError" ->
                 \E e \in Texts : Fail(109, <<"Invalid JSON schema: ", e>>)
            [] out = "URLError" ->
                 \E e \in Texts :
                   Fail(111, <<"Could not download schema from ">> \o schema_path.val
                              \o <<": ", e>>)
            [] out = "OtherError" -> Crash
  /\ UNCHANGED <<files, stdout>>
  /\ UNCHANGED gvars

\* "Validate" and "Format errors"
Validate ==
  /\ pc = "validate"
  /\ \/ \E es \in ViolationSeqs :
          /\ calls' = Append(calls, Call("validate_contract", "iter_errors", <<>>, "ok"))
          /\ errors' = es
          /\ IF es = <<>>
               THEN /\ result' = Return(TRUE, <<>>)
                    /\ ret_line' = 118
               ELSE /\ result' = Return(FALSE, FormatErrors(es))
                    /\ ret_line' = 126
          /\ pc' = "report"
          /\ UNCHANGED <<schema_arg, schema_path, schema_is_url, loaded, traceback,
                         exit_code>>
     \/ /\ calls' = Append(calls, Call("validate_contract", "iter_errors", <<>>,
                                       "OtherError"))
        /\ Crash
  /\ UNCHANGED <<files, stdout>>
  /\ UNCHANGED gvars

ReportExitZero ==
  /\ pc = "report"
  /\ stdout' = stdout \o (IF result.is_valid THEN << <<"Contract is valid!">> >>
                          ELSE << <<"Validation failed:">> >> \o result.errors)
  /\ exit_code' = 0
  /\ pc' = "exited"
  /\ UNCHANGED <<files, schema_arg, schema_path, schema_is_url, loaded, errors,
                 result, ret_line, traceback, calls>>
  /\ UNCHANGED gvars

\* main, after validate_contract returned
Report ==
  /\ pc = "report"
  /\ IF result.is_valid
       THEN /\ stdout' = Append(stdout, <<"Contract is valid!">>)
            /\ exit_code' = 0
       ELSE /\ stdout' = stdout \o << <<"Validation failed:">> >> \o result.errors
            /\ exit_code' = 1
  /\ pc' = "exited"
  /\ UNCHANGED <<files, schema_arg, schema_path, schema_is_url, loaded, errors,
                 result, ret_line, traceback, calls>>
  /\ UNCHANGED gvars

find_schema_file ==
  \/ FindLocal
  \/ Download

validate_contract ==
  \/ CheckContract
  \/ ResolveSchema
  \/ find_schema_file
  \/ LoadContract
  \/ LoadSchema
  \/ Validate

main ==
  \/ ParseArgs
  \/ validate_contract
  \/ Report

Next == main

Spec == Init /\ [][Next]_vars

-----------------------------------------------------------------------------
(* Properties of validate_contract.py *)

Exited == pc = "exited"
\* sub in s, for strings as token sequences
Contains(s, sub) ==
  \E i \in 0..(Len(s) - Len(sub)) : SubSeq(s, i + 1, i + Len(sub)) = sub
CallIdx(op) == { i \in DOMAIN calls : calls[i].op = op }
\* the schema validator was run on the loaded document
Validated == CallIdx("iter_errors") # {}
ValidationCompleted == \E i \in CallIdx("iter_errors") : calls[i].out = "ok"
\* calls made by find_schema_file: probes, temporary file, download
AutoDetectIdx == { i \in DOMAIN calls : calls[i].fn = "find_schema_file" }
ProbesMade == SelectSeq(calls, LAMBDA c : c.fn = "find_schema_file" /\ c.op = "exists")
ProbeOf(p, hit) == Call("find_schema_file", "exists", Resolve(p), BoolStr(hit))
ExplicitLocal == Truthy(schema_arg) /\ ~StartsWith(schema_arg.val, {"http://", "https://"})
\* the report of a contract that was validated and found not to conform
IsViolationReport(msgs) ==
  /\ msgs # <<>>
  /\ \A i \in DOMAIN msgs : msgs[i] \in { FormatError(v) : v \in Violations }
IsInvalidContractOutput(out) ==
  \E h \in DOMAIN out :
    /\ out[h] = <<"Validation failed:">>
    /\ IsViolationReport(SubSeq(out, h + 1, Len(out)))

\* C1: on every return path of validate_contract the returned is_valid flag
\* is True if and only if the returned error list is empty.
C1_ValidIffNoErrors ==
  /\ (ret_line # 0) <=> result.set
  /\ result.set => (result.is_valid <=> result.errors = <<>>)

C1_Witness ==
  /\ ret_line = 126
  /\ \E i \in DOMAIN errors : errors[i].path = <<>>
  /\ ~result.is_valid
  /\ result.errors # <<>>

\* C2: the process exits 0 exactly when document and schema were loaded and
\* validation produced zero violations; in every other case it exits 1.
C2_ExitCode ==
  Exited =>
    /\ exit_code \in {0, 1}
    /\ exit_code = 0 <=>
         /\ {"contract", "schema"} \subseteq loaded
         /\ ValidationCompleted
         /\ errors = <<>>

C2_Witness == Exited /\ exit_code = 0 /\ ValidationCompleted

\* The body shared by the two readings of C3: the explicit reference is the
\* only schema source, and a missing explicit local path ends the run at once.
ExplicitIsOnlySource ==
  /\ AutoDetectIdx = {}
  /\ TMP \notin files
  /\ schema_path.some => schema_path = schema_arg
  /\ \A i \in CallIdx("urlopen") \cup CallIdx("json.load") :
       calls[i].arg = schema_arg.val
  /\ (Exited /\ Exists(files, CONTRACT) /\ ExplicitLocal
        /\ ~Exists(files, schema_arg.val)) =>
       /\ ret_line = 87
       /\ result = Return(FALSE, << <<"Schema file not found: ">> \o schema_arg.val >>)
       /\ calls = << Call("validate_contract", "exists", CONTRACT, "True"),
                     Call("validate_contract", "exists", schema_arg.val, "False") >>
       /\ exit_code = 1

C4_LoadFailureDistinct ==
  /\ ret_line \in {87, 91, 98, 109, 111} =>
       /\ ~Validated
       /\ result.set /\ ~result.is_valid
       /\ ~IsViolationReport(result.errors)
       /\ Exited => (exit_code = 1 /\ ~IsInvalidContractOutput(stdout))
  /\ (\E i \in CallIdx("yaml.safe_load") : calls[i].out # "ok") => ~Validated

C4_Witness == Exited /\ ret_line = 98 /\ schema_path.some

\* C6: when document and schema both load, the result holds exactly one
\* report entry per violation found, in the validator's order, and the
\* printed report is that list: nothing dropped, duplicated or reordered.
C6_OneEntryPerViolation ==
  ret_line \in {118, 126} =>
    /\ Len(result.errors) = Len(errors)
    /\ \A i \in DOMAIN errors : result.errors[i] = FormatError(errors[i])
    /\ (Exited /\ errors # <<>>) =>
         /\ Len(stdout) > Len(errors)
         /\ stdout[Len(stdout) - Len(errors)] = <<"Validation failed:">>
         /\ \A i \in DOMAIN errors :
              stdout[Len(stdout) - Len(errors) + i] = FormatError(errors[i])

C6_Witness ==
  /\ Exited
  /\ Len(errors) = MaxViolations
  /\ errors[1] # errors[Len(errors)]
  /\ errors[1].path = <<>>
  /\ Len(errors[Len(errors)].path) = MaxPathLen

\* C7: with no explicit schema reference the versioned conventional path is
\* used if it exists, otherwise the latest alias if it exists, and the
\* download is attempted only when neither exists.
C7_ResolutionOrder ==
  ( /\ ~Truthy(schema_arg)
    /\ pc \notin {"main", "check_contract", "resolve_schema", "find_schema_file"}
    /\ ret_line # 77 ) =>
    /\ Exists(files, V310) =>
         /\ schema_path = Some(Resolve(V310))
         /\ ProbesMade = << ProbeOf(V310, TRUE) >>
    /\ (~Exists(files, V310) /\ Exists(files, LATEST)) =>
         /\ schema_path = Some(Resolve(LATEST))
         /\ ProbesMade = << ProbeOf(V310, FALSE), ProbeOf(LATEST, TRUE) >>
    /\ (CallIdx("urlretrieve") \cup CallIdx("NamedTemporaryFile") # {}) <=>
         (~Exists(files, V310) /\ ~Exists(files, LATEST) /\ pc # "download")
    /\ \A i \in CallIdx("urlretrieve") \cup CallIdx("NamedTemporaryFile") :
         SubSeq(calls, 1, i - 1) =
           << Call("validate_contract", "exists", CONTRACT, "True"),
              ProbeOf(V310, FALSE), ProbeOf(LATEST, FALSE) >>
           \o (IF calls[i].op = "urlretrieve"
                 THEN << Call("find_schema_file", "NamedTemporaryFile", TMP, "ok") >>
                 ELSE <<>>)

C7_Witness ==
  /\ ~Truthy(schema_arg)
  /\ ~Exists(files, V310)
  /\ Exists(files, LATEST)
  /\ schema_path = Some(Resolve(LATEST))
  /\ Exited

\* C8: when no explicit reference is supplied, no conventional schema exists
\* and the download from the canonical URL fails, the run makes exactly one
\* fetch attempt, prints a warning and ends in a failure (is_valid False,
\* exit code 1) whose message contains the canonical URL, without validating.
C8_DownloadFailureReported ==
  (Exited /\ schema_arg = None /\ \E i \in CallIdx("urlretrieve") : calls[i].out # "ok") =>
    /\ Cardinality(CallIdx("urlretrieve")) = 1
    /\ \E k \in DOMAIN stdout :
         StartsWith(stdout[k], {"Warning: Could not download schema: "})
    /\ result.set /\ ~result.is_valid
    /\ Len(result.errors) = 1 /\ Contains(result.errors[1], SCHEMA_URL)
    /\ exit_code = 1
    /\ ~Validated

\* C9: if the document path does not exist the run fails with 'Contract file
\* not found' before any schema step: no schema path is checked or probed,
\* no temporary file is created, nothing is fetched.
C9_MissingContractFailsFirst ==
  ~Exists(files, CONTRACT) =>
    /\ \A i \in DOMAIN calls :
         calls[i] = Call("validate_contract", "exists", CONTRACT, "False")
    /\ Len(calls) <= 1
    /\ TMP \notin files
    /\ ~schema_path.some
    /\ result.set =>
         /\ ret_line = 77
         /\ result = Return(FALSE, << <<"Contract file not found: ">> \o CONTRACT >>)
    /\ Exited => (result.set /\ exit_code = 1 /\ ~traceback)

C9_Witness ==
  /\ Exited
  /\ ~Exists(files, CONTRACT)
  /\ schema_arg = Some(OTHER_SCHEMA)
  /\ ~Exists(files, OTHER_SCHEMA)
  /\ Len(calls) = 1

-----------------------------------------------------------------------------
(* new_contract.py: generate_contract and main *)

\* n invocations on one output path; the path may already hold a file
GenInit(n) ==
  /\ out_file \in {Absent, PreExisting}
  /\ parent_dir \in BOOLEAN
  /\ out_file.exists => parent_dir
  /\ inv \in { [p \in 1..n |-> InvStart(m[p])] : m \in [1..n -> BOOLEAN] }
  /\ ValIdle

GenCheckNoRefuse(p) ==
  /\ inv[p].pc = "start"
  /\ inv' = [inv EXCEPT ![p].pc = "write", ![p].saw_exists = FALSE,
                        ![p].before = out_file]
  /\ UNCHANGED <<out_file, parent_dir>>
  /\ UNCHANGED vvars

\* "Check if file exists": output_path.exists(), print, return None
GenCheck(p) ==
  /\ inv[p].pc = "start"
  /\ IF out_file.exists
       THEN inv' = [inv EXCEPT ![p].pc = "exit", ![p].saw_exists = TRUE,
                               ![p].before = out_file, ![p].after = out_file,
                               ![p].msg = "Error: File already exists",
                               ![p].ret = "None"]
       ELSE inv' = [inv EXCEPT ![p].pc = "write", ![p].saw_exists = FALSE,
                               ![p].before = out_file]
  /\ UNCHANGED <<out_file, parent_dir>>
  /\ UNCHANGED vvars

\* "Generate values", "Select template", "Write file": mkdir of the parent,
\* then write_text (open for writing truncates, then the data is written)
GenWrite(p) ==
  /\ inv[p].pc = "write"
  /\ \E out \in {"ok", "mkdir_error", "open_error", "write_error"} :
       /\ out = "mkdir_error" => ~parent_dir
       /\ parent_dir' = (parent_dir \/ out # "mkdir_error")
       /\ out_file' = CASE out = "ok" -> Content(p, inv[p].minimal, TRUE)
                        [] out = "write_error" -> Content(p, inv[p].minimal, FALSE)
                        [] OTHER -> out_file
       /\ inv' = [inv EXCEPT ![p].pc = "exit",
                             ![p].wrote = (out \in {"ok", "write_error"}),
                             ![p].after = out_file',
                             ![p].msg = IF out = "ok" THEN "Created contract"
                                        ELSE "Error writing file",
                             ![p].ret = IF out = "ok" THEN "path" ELSE "None"]
  /\ UNCHANGED vvars

\* main: sys.exit(0 if result else 1)
GenExit(p) ==
  /\ inv[p].pc = "exit"
  /\ inv' = [inv EXCEPT ![p].pc = "done",
                        ![p].exit_code = IF inv[p].ret = "path" THEN 0 ELSE 1]
  /\ UNCHANGED <<out_file, parent_dir>>
  /\ UNCHANGED vvars

generate_contract(p) ==
  \/ GenCheck(p)
  \/ GenWrite(p)

\* invocations one after the other: p starts when those before it have exited
InitSeq == GenInit(NumInvocations)

Turn(p) == \A q \in 1..(p - 1) : inv[q].pc = "done"

SeqGenerate == \E p \in DOMAIN inv : Turn(p) /\ generate_contract(p)
SeqExit == \E p \in DOMAIN inv : Turn(p) /\ GenExit(p)

NextSeq ==
  \/ SeqGenerate
  \/ SeqExit

SpecSeq == InitSeq /\ [][NextSeq]_vars

\* invocations as concurrent processes: their steps interleave freely
InitConc == GenInit(NumProcs)

ConcCheck == \E p \in DOMAIN inv : GenCheck(p)
ConcWrite == \E p \in DOMAIN inv : GenWrite(p)
ConcExit == \E p \in DOMAIN inv : GenExit(p)

NextConc ==
  \/ ConcCheck
  \/ ConcWrite
  \/ ConcExit

SpecConc == InitConc /\ [][NextConc]_vars

-----------------------------------------------------------------------------
(* Properties of new_contract.py *)

Done(p) == inv[p].pc = "done"
FoundAbsent(p) == inv[p].pc # "start" /\ ~inv[p].saw_exists
FirstFoundAbsent(p) == FoundAbsent(p) /\ \A q \in 1..(p - 1) : ~FoundAbsent(q)
\* invocation q wrote nothing, left the file as it was and reported failure
Refused(q) ==
  /\ ~inv[q].wrote
  /\ inv[q].after = inv[q].before
  /\ inv[q].ret = "None"
  /\ inv[q].exit_code = 1

\* C5 as stated: in a sequence of invocations only the first one that finds
\* the path absent writes the file; every later one writes nothing, leaves
\* the content unchanged and reports failure.
C5_OnlyFirstAbsentWrites ==
  \A p \in DOMAIN inv : \A q \in DOMAIN inv :
    /\ (Done(q) /\ inv[q].wrote) => FirstFoundAbsent(q)
    /\ (FirstFoundAbsent(p) /\ q > p /\ Done(q)) => Refused(q)

\* C5 as amended: in a sequence of invocations only the first one that
\* creates the file writes it (an invocation that finds the path absent and
\* fails before creating the file leaves it to a later one); every
\* invocation after the file exists writes nothing, leaves the content
\* unchanged and reports failure (None, exit code 1).
C5_OnlyFirstCreatorWrites ==
  \A p \in DOMAIN inv : \A q \in DOMAIN inv :
    /\ (Done(q) /\ inv[q].before.exists) => (inv[q].saw_exists /\ Refused(q))
    /\ (Done(p) /\ inv[p].after.exists /\ q > p /\ Done(q)) =>
         (inv[q].before = inv[p].after /\ Refused(q))
    /\ (Done(p) /\ Done(q) /\ inv[p].wrote /\ inv[q].wrote) => p = q
    /\ (Done(q) /\ inv[q].exit_code = 0) =>
         (inv[q].ret = "path" /\ inv[q].wrote /\ inv[q].after.complete)

C5_Witness ==
  /\ \A p \in DOMAIN inv : Done(p)
  /\ ~inv[1].saw_exists /\ ~inv[1].wrote
  /\ inv[2].wrote /\ inv[2].exit_code = 0
  /\ inv[3].saw_exists /\ inv[3].exit_code = 1
  /\ out_file = inv[2].after

\* C10: when concurrent invocations start on an output path that does not
\* exist, under every interleaving at most one of them writes the file and
\* reports success, and none overwrites content written by another.
C10_AtMostOneConcurrentWriter ==
  out_file # PreExisting =>
    /\ Cardinality({ p \in DOMAIN inv : inv[p].wrote }) <= 1
    /\ Cardinality({ p \in DOMAIN inv : inv[p].ret = "path" }) <= 1
    /\ \A p \in DOMAIN inv : inv[p].wrote => ~inv[p].before.exists

====
